---- MODULE Spec2Model ----
(***************************************************************************)
(* Model of the todo API (routes/todos.js over the Todo and Changelog      *)
(* collections).  Every request handler is a sequence of atomic steps, one *)
(* per awaited storage operation together with the synchronous code that   *)
(* follows it up to the next await.  Handlers of different requests         *)
(* interleave at these steps, as they do on the Node event loop.            *)
(***************************************************************************)
EXTENDS Integers, Sequences, FiniteSets, Bags, TLC

\* ------------------------------------------------------------------ bounds
MaxReq == 2
MaxLog == 3
MaxBatch == 2
MaxFail == 1
MaxIds == 2

\* ------------------------------------------------------------- JS values
NoVal == "undefined"
Fields == {"title", "description", "completed"}

\* A JSON object of a request body: `has` is the set of keys it carries.
MkBody(h, t, d, c) ==
    [has |-> h,
     title |-> IF "title" \in h THEN t ELSE NoVal,
     description |-> IF "description" \in h THEN d ELSE NoVal,
     completed |-> IF "completed" \in h THEN c ELSE FALSE]

EmptyObj == MkBody({}, NoVal, NoVal, FALSE)

PostItems == {EmptyObj, MkBody({"title"}, "a", NoVal, FALSE)}

PatchBodies ==
    {MkBody(h, "b", "d", TRUE) : h \in {{}, Fields} \cup {{f} : f \in Fields}}
      \cup {MkBody({"completed"}, "b", "d", FALSE)}

RECURSIVE SeqsUpTo(_, _)
SeqsUpTo(S, n) ==
    IF n = 0 THEN {<<>>}
    ELSE LET shorter == SeqsUpTo(S, n - 1)
         IN shorter \cup {Append(s, x) : s \in {t \in shorter : Len(t) = n - 1}, x \in S}

\* req.body of a POST: absent, one object, or an array of objects.
PostBodies ==
    {[kind |-> "none", items |-> <<>>]}
      \cup {[kind |-> "object", items |-> <<i>>] : i \in PostItems}
      \cup {[kind |-> "array", items |-> s] : s \in SeqsUpTo(PostItems, MaxBatch)}

\* Identifiers in a URL: a well-formed ObjectId (0 is never allocated) or a
\* malformed string.
BadId == -1

\* Variant: no identifier fails the cast to ObjectId.
CastAny(id) == TRUE

CastOk(id) == id # BadId

\* The lastSyncedVersion query parameter: absent, empty, an integer, or text.
NoQuery == [kind |-> "absent", v |-> 0]
IntQuery(v) == [kind |-> "int", v |-> v]
Queries ==
    {NoQuery, [kind |-> "empty", v |-> 0], [kind |-> "text", v |-> 0]}
      \cup {IntQuery(v) : v \in -1..MaxLog}

\* String-typed schema paths: trim: true.
Trim(s) == IF s = " " THEN "" ELSE s

\* resourceId is a String path: the ObjectId is cast to its string form.
CastString(id) == ToString(id)

\* ------------------------------------------------------------------ state
VARIABLES
    todos,      \* Todo collection: _id -> document
    nextId,     \* next fresh ObjectId
    changelog,  \* Changelog collection in insertion order
    req,        \* bag of the request handlers in flight
    resp,       \* the response sent last
    history,    \* successful mutations, in order of their responses
    failures,   \* storage failures so far
    client      \* a sync client: watermark, entries received, in sync

vars == <<todos, nextId, changelog, req, resp, history, failures, client>>

\* The paths of todoSchema, with _id.
TodoPaths ==
    {"_id", "title", "description", "completed", "created_at", "due_date",
     "dependencies", "image", "tags", "priority"}

NoDoc ==
    [_id |-> 0, title |-> NoVal, description |-> NoVal, completed |-> FALSE,
     created_at |-> 0, due_date |-> NoVal, dependencies |-> <<>>, image |-> NoVal,
     tags |-> <<>>, priority |-> NoVal]

\* The local state of a handler: its position (pc) and its local variables.
\* set holds the fields a PATCH has assigned, delta those it has modified.
\* wrote counts the changelog entries the handler has appended so far.
NewHandler ==
    [op |-> "none", pc |-> "start", id |-> 0, doc |-> NoDoc, set |-> {}, delta |-> {},
     items |-> <<>>, saved |-> <<>>, cur |-> -1, isDeleted |-> FALSE,
     wrote |-> 0]

NoResp ==
    [op |-> "none", status |-> 0, q |-> NoQuery, body |-> <<>>]

Init ==
    /\ todos = <<>>
    /\ nextId = 1
    /\ changelog = <<>>
    /\ req = EmptyBag
    /\ resp = NoResp
    /\ history = <<>>
    /\ failures = 0
    /\ client = [watermark |-> NoQuery, received |-> {}, synced |-> FALSE]

\* ------------------------------------------------------ storage operations
Max(S) == CHOOSE x \in S : \A y \in S : y <= x

\* Variant: findOne() without the sort, the entry inserted last.
CurVersionUnsorted(log) ==
    IF log = <<>> THEN -1 ELSE log[Len(log)].version

\* Variant: the counter starts from 0 when the changelog is empty.
CurVersionFromZero(log) ==
    IF log = <<>> THEN 0 ELSE Max({log[i].version : i \in 1..Len(log)})

\* Changelog.findOne().sort({version: -1}) and lastRecord?.version ?? -1
CurVersion(log) ==
    IF log = <<>> THEN -1 ELSE Max({log[i].version : i \in 1..Len(log)})

\* Variant: the isDeleted argument is not passed on to the entry.
NewChangelogDefaultFlag(resource, isDeleted, curVersion, oid) ==
    [_id |-> oid,
     resourceId |-> CastString(resource._id),
     isDeleted |-> FALSE,
     resourceType |-> "todo",
     version |-> curVersion + 1]

\* new Changelog({resourceId, isDeleted, resourceType, version: curVersion + 1})
NewChangelog(resource, isDeleted, curVersion, oid) ==
    [_id |-> oid,
     resourceId |-> CastString(resource._id),
     isDeleted |-> isDeleted,
     resourceType |-> "todo",
     version |-> curVersion + 1]

\* req.query.lastSyncedVersion || 0
LastSyncedVersion(q) == IF q.kind \in {"absent", "empty"} THEN 0 ELSE q.v

\* Variant: $gte in place of $gt.
FindSinceGte(log, v) == SelectSeq(log, LAMBDA e : e.version >= v)

\* Changelog.find({version: {$gt: lastSyncedVersion}})
FindSince(log, v) == SelectSeq(log, LAMBDA e : e.version > v)

\* new Todo({title, description, completed: data.completed || false,
\* priority: data.priority || 'medium', tags: data.tags || [], ...}); the
\* default of created_at is the time of creation, counted in documents created.
NewTodo(data, oid) ==
    [_id |-> oid,
     title |-> IF "title" \in data.has THEN Trim(data.title) ELSE NoVal,
     description |-> IF "description" \in data.has THEN Trim(data.description) ELSE NoVal,
     completed |-> ("completed" \in data.has /\ data.completed),
     created_at |-> oid,
     due_date |-> NoVal,
     dependencies |-> <<>>,
     image |-> NoVal,
     tags |-> <<>>,
     priority |-> "medium"]

\* title: required
ValidTodo(doc) == doc.title # NoVal /\ doc.title # ""

\* if (req.body.title) ...; if (req.body.description) ...;
\* if (req.body.completed !== undefined) ...
Assigned(body) ==
    {f \in body.has : f = "completed" \/ body[f] # ""}

ApplyPatch(doc, body) ==
    [doc EXCEPT
       !.title = IF "title" \in Assigned(body) THEN Trim(body.title) ELSE @,
       !.description = IF "description" \in Assigned(body)
                       THEN Trim(body.description) ELSE @,
       !.completed = IF "completed" \in Assigned(body) THEN body.completed ELSE @]

\* the paths todo.save() writes: those whose value was changed
ModifiedPaths(old, new) == {f \in Fields : old[f] # new[f]}

\* Variant: save() replaces the stored document by the one in memory.
UpdateDocWhole(stored, doc, delta) == doc

\* updateOne({_id}, {$set: modified paths})
UpdateDoc(stored, doc, delta) ==
    [f \in DOMAIN stored |-> IF f \in delta THEN doc[f] ELSE stored[f]]

\* Variant: the entry replaces the stored entry of the same resource.
Upsert(log, entry) ==
    Append(SelectSeq(log, LAMBDA e : e.resourceId # entry.resourceId), entry)

\* changelog.save() of a new document
Insert(log, entry) == Append(log, entry)

\* What addChangelog and deleteOne() use of a document: its _id.
Resource(doc) == [NoDoc EXCEPT !._id = doc._id]

\* Variant: deleteMany({}) in place of deleteOne().
RemoveAll(coll, id) == <<>>

\* todo.deleteOne(): the document with this _id is removed, if it is stored
Remove(coll, id) == [i \in DOMAIN coll \ {id} |-> coll[i]]

\* ----------------------------------------------------------- bookkeeping
\* no response is on its way to a caller
Quiet == resp = NoResp

Handlers == BagToSet(req)
AllIdle == req = EmptyBag

\* changelog entries a handler has still to write
Pending(h) == IF h.op \in {"post", "post.prefetch"} THEN Len(h.items) ELSE 1

RECURSIVE SumPending(_)
SumPending(S) ==
    IF S = {} THEN 0
    ELSE LET h == CHOOSE x \in S : TRUE
         IN CopiesIn(h, req) * Pending(h) + SumPending(S \ {h})

\* a handler can be admitted that will write n changelog entries
Room(n) ==
    /\ BagCardinality(req) < MaxReq
    /\ Len(changelog) + SumPending(Handlers) + n <= MaxLog

Response(op, status) ==
    [op |-> op, status |-> status, q |-> NoQuery, body |-> <<>>]

Created(docs) == [i \in 1..Len(docs) |-> [op |-> "create", id |-> docs[i]._id]]

\* a request is accepted and its handler suspends at its first await
Admit(h) == req' = req (+) SetToBag({h})

\* handler h resumes and suspends again as g
Continue(h, g) == req' = (req (-) SetToBag({h})) (+) SetToBag({g})

\* handler h ends: res.status(status).json(...)
Finish(h, status) ==
    /\ req' = req (-) SetToBag({h})
    /\ resp' = Response(h.op, status)

\* a handler that ends in its first step
Answer(op, status) ==
    /\ resp' = Response(op, status)
    /\ UNCHANGED req

\* the same, for a request that names a todo: req.params.id
IdQuery(id) == [kind |-> "id", v |-> id]

AnswerId(op, status, id) ==
    /\ resp' = [Response(op, status) EXCEPT !.q = IdQuery(id)]
    /\ UNCHANGED req

\* --------------------------------------------------------------- POST /
\* router.post: the body check and the start of the loop over todosData
PostReceive(body) ==
    /\ Quiet
    /\ IF body.kind = "none"
       THEN Answer("post", 400)
       ELSE IF body.items = <<>>
       THEN Answer("post", 201)
       ELSE /\ Room(Len(body.items))
            /\ Admit([NewHandler EXCEPT !.op = "post", !.pc = "save",
                                         !.items = body.items])
            /\ UNCHANGED resp
    /\ UNCHANGED <<todos, nextId, changelog, history, failures, client>>

\* Variant: the item is stored before it is validated.
PostSaveUnvalidated(h) ==
    /\ Quiet
    /\ h.op = "post" /\ h.pc = "save"
    /\ LET todo == NewTodo(Head(h.items), nextId)
       IN /\ todos' = todos @@ (nextId :> todo)
          /\ nextId' = nextId + 1
          /\ IF ValidTodo(todo)
             THEN /\ Continue(h, [h EXCEPT !.doc = todo, !.id = todo._id,
                                           !.isDeleted = FALSE, !.pc = "findlast"])
                  /\ UNCHANGED resp
             ELSE Finish(h, 400)
    /\ UNCHANGED <<changelog, history, failures, client>>

\* Variant: a rejected item removes the todos the batch has already stored.
PostSaveRollback(h) ==
    /\ Quiet
    /\ h.op = "post" /\ h.pc = "save"
    /\ LET todo == NewTodo(Head(h.items), nextId)
       IN IF ValidTodo(todo)
          THEN /\ todos' = todos @@ (nextId :> todo)
               /\ nextId' = nextId + 1
               /\ Continue(h, [h EXCEPT !.doc = todo, !.id = todo._id,
                                         !.isDeleted = FALSE, !.pc = "findlast"])
               /\ UNCHANGED resp
          ELSE /\ Finish(h, 400)
               /\ todos' = [i \in DOMAIN todos \ {h.saved[k]._id : k \in 1..Len(h.saved)}
                               |-> todos[i]]
               /\ UNCHANGED nextId
    /\ UNCHANGED <<changelog, history, failures, client>>

\* new Todo(data) and await todo.save(), for the item at the head of the loop
PostSave(h) ==
    /\ Quiet
    /\ h.op = "post" /\ h.pc = "save"
    /\ LET todo == NewTodo(Head(h.items), nextId)
       IN IF ValidTodo(todo)
          THEN /\ todos' = todos @@ (nextId :> todo)
               /\ nextId' = nextId + 1
               /\ Continue(h, [h EXCEPT !.doc = todo, !.id = todo._id,
                                         !.isDeleted = FALSE, !.pc = "findlast"])
               /\ UNCHANGED resp
          ELSE /\ Finish(h, 400)
               /\ UNCHANGED <<todos, nextId>>
    /\ UNCHANGED <<changelog, history, failures, client>>

\* ---------------------------------------------------------- addChangelog
\* Variant: the last version is read for the first item of a batch only.
FindLastOnce(h) ==
    /\ Quiet
    /\ h.pc = "findlast"
    /\ Continue(h, [h EXCEPT !.cur = IF h.wrote = 0 THEN CurVersion(changelog) ELSE @,
                              !.pc = "logsave"])
    /\ UNCHANGED <<todos, nextId, changelog, resp, history, failures, client>>

\* const lastRecord = await Changelog.findOne().sort({version: -1})
FindLast(h) ==
    /\ Quiet
    /\ h.pc = "findlast"
    /\ Continue(h, [h EXCEPT !.cur = CurVersion(changelog), !.pc = "logsave"])
    /\ UNCHANGED <<todos, nextId, changelog, resp, history, failures, client>>

\* await changelog.save(), and the caller's code after addChangelog returns
LogSave(h) ==
    /\ Quiet
    /\ h.pc = "logsave"
    /\ changelog' = Insert(changelog,
           NewChangelog(h.doc, h.isDeleted, h.cur, Len(changelog) + 1))
    /\ client' = [client EXCEPT !.synced = FALSE]
    /\ CASE h.op = "post" /\ Len(h.items) > 1 ->
              /\ Continue(h, [h EXCEPT !.items = Tail(@), !.wrote = @ + 1,
                                        !.saved = Append(@, h.doc), !.pc = "save"])
              /\ UNCHANGED <<resp, history>>
         [] h.op = "post" /\ Len(h.items) = 1 ->
              /\ req' = req (-) SetToBag({h})
              /\ resp' = [Response("post", 201) EXCEPT !.body = Append(h.saved, h.doc)]
              /\ history' = history \o Created(Append(h.saved, h.doc))
         [] h.op = "patch" ->
              /\ Finish(h, 200)
              /\ history' = Append(history, [op |-> "update", id |-> h.id])
         [] h.op = "delete" ->
              /\ Finish(h, 200)
              /\ history' = Append(history, [op |-> "delete", id |-> h.id])
    /\ UNCHANGED <<todos, nextId, failures>>

\* ------------------------------- POST / of the router in models/Todo.js
\* The body check and the start of the handler, which awaits the read of the
\* last version before its loop.
PrefetchPostReceive(body) ==
    /\ Quiet
    /\ IF body.kind = "none"
       THEN Answer("post.prefetch", 400)
       ELSE /\ Room(Len(body.items))
            /\ Admit([NewHandler EXCEPT !.op = "post.prefetch", !.pc = "prefetch",
                                         !.items = body.items])
            /\ UNCHANGED resp
    /\ UNCHANGED <<todos, nextId, changelog, history, failures, client>>

\* lastChangelog ? lastChangelog.version : 0
LastSynced(log) ==
    IF log = <<>> THEN 0 ELSE Max({log[i].version : i \in 1..Len(log)})

\* const lastChangelog = await Changelog.findOne().sort({version: -1}), once
\* for the batch
Prefetch(h) ==
    /\ Quiet
    /\ h.op = "post.prefetch" /\ h.pc = "prefetch"
    /\ IF h.items = <<>>
       THEN Finish(h, 201)
       ELSE /\ Continue(h, [h EXCEPT !.cur = LastSynced(changelog), !.pc = "save"])
            /\ UNCHANGED resp
    /\ UNCHANGED <<todos, nextId, changelog, history, failures, client>>

\* new Todo(data) and await todo.save(), then lastSyncedVersion++
PrefetchPostSave(h) ==
    /\ Quiet
    /\ h.op = "post.prefetch" /\ h.pc = "save"
    /\ LET todo == NewTodo(Head(h.items), nextId)
       IN IF ValidTodo(todo)
          THEN /\ todos' = todos @@ (nextId :> todo)
               /\ nextId' = nextId + 1
               /\ Continue(h, [h EXCEPT !.doc = todo, !.id = todo._id,
                                         !.cur = @ + 1, !.pc = "log"])
               /\ UNCHANGED resp
          ELSE /\ Finish(h, 400)
               /\ UNCHANGED <<todos, nextId>>
    /\ UNCHANGED <<changelog, history, failures, client>>

\* new Changelog({resourceId, version: lastSyncedVersion, isDeleted: false})
\* and await log.save()
PrefetchLogSave(h) ==
    /\ Quiet
    /\ h.op = "post.prefetch" /\ h.pc = "log"
    /\ changelog' = Insert(changelog,
           NewChangelog(h.doc, FALSE, h.cur - 1, Len(changelog) + 1))
    /\ client' = [client EXCEPT !.synced = FALSE]
    /\ IF Len(h.items) > 1
       THEN /\ Continue(h, [h EXCEPT !.items = Tail(@), !.wrote = @ + 1,
                                      !.saved = Append(@, h.doc), !.pc = "save"])
            /\ UNCHANGED <<resp, history>>
       ELSE /\ req' = req (-) SetToBag({h})
            /\ resp' = [Response(h.op, 201) EXCEPT !.body = Append(h.saved, h.doc)]
            /\ history' = history \o Created(Append(h.saved, h.doc))
    /\ UNCHANGED <<todos, nextId, failures>>

\* ---------------------------------------------------------- PATCH /:id
\* await Todo.findById(req.params.id) and the assignments to the document
PatchFind(id, body) ==
    /\ Quiet
    /\ IF ~CastOk(id)
       THEN AnswerId("patch", 400, id)
       ELSE IF id \notin DOMAIN todos
       THEN AnswerId("patch", 404, id)
       ELSE /\ Room(1)
            /\ LET todo == ApplyPatch(todos[id], body)
               IN Admit([NewHandler EXCEPT !.op = "patch", !.pc = "save", !.id = id,
                                           !.doc = todo,
                                           !.set = Assigned(body),
                                           !.delta = ModifiedPaths(todos[id], todo)])
            /\ UNCHANGED resp
    /\ UNCHANGED <<todos, nextId, changelog, history, failures, client>>

\* Variant: the handler answers after todo.save() without calling addChangelog.
PatchSaveNoLog(h) ==
    /\ Quiet
    /\ h.op = "patch" /\ h.pc = "save"
    /\ IF ValidTodo(h.doc) /\ h.id \in DOMAIN todos
       THEN /\ todos' = [todos EXCEPT ![h.id] = UpdateDoc(@, h.doc, h.delta)]
            /\ Finish(h, 200)
            /\ history' = Append(history, [op |-> "update", id |-> h.id])
       ELSE /\ Finish(h, 400)
            /\ UNCHANGED <<todos, history>>
    /\ UNCHANGED <<nextId, changelog, failures, client>>

\* const updatedTodo = await todo.save(): the document is validated and its
\* modified paths are written; save() rejects (DocumentNotFoundError) when the
\* document is no longer stored, and the catch block answers 400.
PatchSave(h) ==
    /\ Quiet
    /\ h.op = "patch" /\ h.pc = "save"
    /\ IF ValidTodo(h.doc) /\ h.id \in DOMAIN todos
       THEN /\ todos' = [todos EXCEPT ![h.id] = UpdateDoc(@, h.doc, h.delta)]
            /\ Continue(h, [h EXCEPT !.isDeleted = FALSE, !.pc = "findlast",
                                      !.doc = Resource(@), !.set = {}, !.delta = {}])
            /\ UNCHANGED resp
       ELSE /\ Finish(h, 400)
            /\ UNCHANGED todos
    /\ UNCHANGED <<nextId, changelog, history, failures, client>>

\* --------------------------------------------------------- DELETE /:id
\* Variant: the handler does not check that findById found the todo.
DeleteFindNoCheck(id) ==
    /\ Quiet
    /\ IF ~CastOk(id)
       THEN AnswerId("delete", 500, id)
       ELSE /\ Room(1)
            /\ Admit([NewHandler EXCEPT !.op = "delete", !.pc = "remove", !.id = id,
                                        !.doc = IF id \in DOMAIN todos THEN todos[id]
                                                ELSE [NoDoc EXCEPT !._id = id]])
            /\ UNCHANGED resp
    /\ UNCHANGED <<todos, nextId, changelog, history, failures, client>>

\* await Todo.findById(req.params.id)
DeleteFind(id) ==
    /\ Quiet
    /\ IF ~CastOk(id)
       THEN AnswerId("delete", 500, id)
       ELSE IF id \notin DOMAIN todos
       THEN AnswerId("delete", 404, id)
       ELSE /\ Room(1)
            /\ Admit([NewHandler EXCEPT !.op = "delete", !.pc = "remove", !.id = id,
                                        !.doc = Resource(todos[id])])
            /\ UNCHANGED resp
    /\ UNCHANGED <<todos, nextId, changelog, history, failures, client>>

\* Variant: the handler answers after deleteOne() without calling addChangelog.
DeleteRemoveNoLog(h) ==
    /\ Quiet
    /\ h.op = "delete" /\ h.pc = "remove"
    /\ todos' = Remove(todos, h.id)
    /\ Finish(h, 200)
    /\ history' = Append(history, [op |-> "delete", id |-> h.id])
    /\ UNCHANGED <<nextId, changelog, failures, client>>

\* await todo.deleteOne()
DeleteRemove(h) ==
    /\ Quiet
    /\ h.op = "delete" /\ h.pc = "remove"
    /\ todos' = Remove(todos, h.id)
    /\ Continue(h, [h EXCEPT !.isDeleted = TRUE, !.pc = "findlast"])
    /\ UNCHANGED <<nextId, changelog, resp, history, failures, client>>

\* ------------------------------------------------------------ GET /:id
GetById(id) ==
    /\ Quiet
    /\ IF ~CastOk(id)
       THEN AnswerId("get", 500, id)
       ELSE IF id \notin DOMAIN todos
       THEN AnswerId("get", 404, id)
       ELSE AnswerId("get", 200, id)
    /\ UNCHANGED <<todos, nextId, changelog, history, failures, client>>

\* --------------------------------------------------------------- GET /
\* req.query.id ? Array.isArray(req.query.id) ? req.query.id : [req.query.id] : []
\* The parameter is absent, the empty string, or one or more identifiers.
IdsOf(f) == IF f.kind \in {"absent", "empty"} THEN {} ELSE f.ids

\* Variant: the filter is read from req.params, which this route never has.
FindIgnoringIds(coll, ids) == {coll[i] : i \in DOMAIN coll}

\* Todo.find(ids.length ? {_id: {$in: ids}} : {})
Find(coll, ids) ==
    IF ids = {} THEN {coll[i] : i \in DOMAIN coll}
    ELSE {coll[i] : i \in DOMAIN coll \cap ids}

\* The sort key of a document: a path the document lacks compares as null.
SortKey(doc, path) == IF path \in DOMAIN doc THEN doc[path] ELSE 0

\* .sort({[path]: -1}): the orders of the documents with keys descending;
\* documents with equal keys come in any order.
SortDescending(docs, path) ==
    {s \in [1..Cardinality(docs) -> docs] :
        /\ \A i, j \in DOMAIN s : i # j => s[i] # s[j]
        /\ \A i, j \in DOMAIN s : i < j => SortKey(s[i], path) >= SortKey(s[j], path)}

GetTodos(f) ==
    /\ Quiet
    /\ IF \E id \in IdsOf(f) : ~CastOk(id)
       THEN resp' = [Response("todos", 500) EXCEPT !.q = f]
       ELSE \E found \in SortDescending(Find(todos, IdsOf(f)), "createdAt") :
               resp' = [Response("todos", 200) EXCEPT !.q = f, !.body = found]
    /\ UNCHANGED <<todos, nextId, changelog, req, history, failures, client>>

\* ------------------------------------------------------ GET /changelist
ListResponse(q) ==
    IF q.kind = "text"
    THEN [Response("list", 500) EXCEPT !.q = q]
    ELSE [Response("list", 200) EXCEPT
             !.q = q, !.body = FindSince(changelog, LastSyncedVersion(q))]

Changelist(q) ==
    /\ Quiet
    /\ resp' = ListResponse(q)
    /\ UNCHANGED <<todos, nextId, changelog, req, history, failures, client>>

\* A sync client requests GET /changelist with its watermark (none at first)
\* and then raises the watermark to the highest version it has received.
\* synced records that the poll happened with no mutation in flight; the next
\* changelog write clears it.
ClientPoll ==
    /\ Quiet
    /\ LET got == ListResponse(client.watermark).body
           vs == {got[i].version : i \in 1..Len(got)}
       IN client' = [watermark |-> IF vs = {} THEN client.watermark
                                   ELSE IntQuery(Max(vs)),
                     received |-> client.received \cup {got[i]._id : i \in 1..Len(got)},
                     synced |-> AllIdle]
    /\ UNCHANGED <<todos, nextId, changelog, req, resp, history, failures>>

\* --------------------------------------------------------- storage errors
ErrorStatus(op) == IF op = "delete" THEN 500 ELSE 400

\* addChangelog is what the handler awaits: its todo mutation is committed
InAddChangelog(h) == h.pc \in {"findlast", "logsave"}

\* the record of a mutation whose changelog append was rejected
Lost(h) == [op |-> "lost " \o h.op, id |-> h.id]

\* Variant: a rejected storage operation is retried instead of answered.
StorageFailRetry(h) ==
    /\ Quiet
    /\ failures < MaxFail
    /\ failures' = failures + 1
    /\ history' = IF InAddChangelog(h) THEN Append(history, Lost(h)) ELSE history
    /\ UNCHANGED <<todos, nextId, changelog, req, resp, client>>

\* The storage operation a handler awaits is rejected; its catch block answers.
StorageFail(h) ==
    /\ Quiet
    /\ failures < MaxFail
    /\ failures' = failures + 1
    /\ Finish(h, ErrorStatus(h.op))
    /\ history' = IF InAddChangelog(h) THEN Append(history, Lost(h)) ELSE history
    /\ UNCHANGED <<todos, nextId, changelog, client>>

\* ------------------------------------------------------------ behaviours
UrlIds == 0..(nextId - 1) \cup {BadId}

\* The response a step sends is received before the next step is taken.
IdFilters ==
    {[kind |-> "absent", ids |-> {}], [kind |-> "empty", ids |-> {}]}
      \cup {[kind |-> "ids", ids |-> S] :
               S \in {T \in SUBSET UrlIds : T # {} /\ Cardinality(T) <= MaxIds}}

Deliver ==
    /\ ~Quiet
    /\ resp' = NoResp
    /\ UNCHANGED <<todos, nextId, changelog, req, history, failures, client>>

Next ==
    \/ \E body \in PostBodies : PostReceive(body)
    \/ \E id \in UrlIds, body \in PatchBodies : PatchFind(id, body)
    \/ \E id \in UrlIds : DeleteFind(id)
    \/ \E h \in Handlers : PostSave(h)
    \/ \E h \in Handlers : PatchSave(h)
    \/ \E h \in Handlers : DeleteRemove(h)
    \/ \E h \in Handlers : FindLast(h)
    \/ \E h \in Handlers : LogSave(h)
    \/ Deliver

Spec == Init /\ [][Next]_vars

\* Single mutations issued one at a time: a request arrives only when none is
\* in flight, and a POST carries one todo.
SeqPost ==
    AllIdle /\ \E body \in {b \in PostBodies : Len(b.items) = 1} : PostReceive(body)

SeqPatch == AllIdle /\ \E id \in UrlIds, body \in PatchBodies : PatchFind(id, body)

SeqDelete == AllIdle /\ \E id \in UrlIds : DeleteFind(id)

SeqNext ==
    \/ SeqPost
    \/ SeqPatch
    \/ SeqDelete
    \/ \E h \in Handlers : PostSave(h)
    \/ \E h \in Handlers : PatchSave(h)
    \/ \E h \in Handlers : DeleteRemove(h)
    \/ \E h \in Handlers : FindLast(h)
    \/ \E h \in Handlers : LogSave(h)
    \/ Deliver

SeqSpec == Init /\ [][SeqNext]_vars

\* Requests issued one at a time, a POST carrying any body.
SerialPost == AllIdle /\ \E body \in PostBodies : PostReceive(body)

SerialNext ==
    \/ SerialPost
    \/ SeqPatch
    \/ SeqDelete
    \/ \E h \in Handlers : PostSave(h)
    \/ \E h \in Handlers : PatchSave(h)
    \/ \E h \in Handlers : DeleteRemove(h)
    \/ \E h \in Handlers : FindLast(h)
    \/ \E h \in Handlers : LogSave(h)
    \/ Deliver

SerialSpec == Init /\ [][SerialNext]_vars

\* Requests issued one at a time, with storage errors.
SerialFailNext ==
    \/ SerialNext
    \/ \E h \in Handlers : StorageFail(h)

SerialFailSpec == Init /\ [][SerialFailNext]_vars

\* Requests issued one at a time, with GET / at any moment.
TodosNext ==
    \/ SerialNext
    \/ \E f \in IdFilters : GetTodos(f)

TodosSpec == Init /\ [][TodosNext]_vars

\* addChangelog over any content of the Changelog collection, as other
\* writers (the router kept in models/Todo.js numbers from 1) can leave it:
\* versions in any order, with gaps and duplicates.
StoreVersions == 0..(MaxLog - 1)

Stores ==
    {[k \in 1..Len(vs) |-> NewChangelog(NoDoc, FALSE, vs[k] - 1, k)] :
        vs \in SeqsUpTo(StoreVersions, MaxLog - 1)}

VersionInit ==
    /\ changelog \in Stores
    /\ todos = <<>>
    /\ nextId = 1
    /\ req = EmptyBag
    /\ resp = NoResp
    /\ history = <<>>
    /\ failures = 0
    /\ client = [watermark |-> NoQuery, received |-> {}, synced |-> FALSE]

VersionSpec == VersionInit /\ [][SerialNext]_vars

\* Batch creates by either router, one request at a time, over any content
\* of the Changelog collection.
SerialPrefetchPost == AllIdle /\ \E body \in PostBodies : PrefetchPostReceive(body)

BatchNext ==
    \/ SerialPost
    \/ SerialPrefetchPost
    \/ \E h \in Handlers : PostSave(h)
    \/ \E h \in Handlers : FindLast(h)
    \/ \E h \in Handlers : LogSave(h)
    \/ \E h \in Handlers : Prefetch(h)
    \/ \E h \in Handlers : PrefetchPostSave(h)
    \/ \E h \in Handlers : PrefetchLogSave(h)
    \/ Deliver

BatchSpec == VersionInit /\ [][BatchNext]_vars

\* The API with GET /:id.
GetNext ==
    \/ Next
    \/ \E id \in UrlIds : GetById(id)

GetSpec == Init /\ [][GetNext]_vars

\* The API with GET /changelist.
ListNext ==
    \/ Next
    \/ \E q \in Queries : Changelist(q)

ListSpec == Init /\ [][ListNext]_vars

\* The API with every read request.
ApiNext ==
    \/ Next
    \/ \E id \in UrlIds : GetById(id)
    \/ \E f \in IdFilters : GetTodos(f)
    \/ \E q \in Queries : Changelist(q)

ApiSpec == Init /\ [][ApiNext]_vars

\* The API together with a polling sync client.
SyncNext ==
    \/ Next
    \/ ClientPoll

SyncSpec == Init /\ [][SyncNext]_vars

\* The API with storage operations that can be rejected.
FailNext ==
    \/ Next
    \/ \E h \in Handlers : StorageFail(h)

FailSpec == Init /\ [][FailNext]_vars

\* ================================================================ claims
Last(seq) == seq[Len(seq)]
Entries == {changelog[i] : i \in 1..Len(changelog)}
WithVersion(v) == {e \in Entries : e.version = v}
Count(op) == Cardinality({k \in 1..Len(history) : history[k].op = op})

\* handler h is the one that takes the step
Steps(h) == CopiesIn(h, req') < CopiesIn(h, req)

\* C1: no two changelog entries share a version, whatever the interleaving of
\* the requests.
C1_UniqueVersions ==
    \A i, j \in 1..Len(changelog) :
        i # j => changelog[i].version # changelog[j].version

\* C2: after N successful single mutations issued one at a time on an empty
\* changelog there are exactly N entries, their versions are 0..N-1, and the
\* k-th mutation issued owns the entry with version k-1.
C2_SequentialVersions ==
    (AllIdle /\ Quiet) =>
        /\ Len(changelog) = Len(history)
        /\ \A k \in 1..Len(history) :
              /\ Cardinality(WithVersion(k - 1)) = 1
              /\ \A e \in WithVersion(k - 1) :
                    /\ e.resourceId = CastString(history[k].id)
                    /\ e.isDeleted = (history[k].op = "delete")

C2_Witness ==
    /\ AllIdle /\ Quiet
    /\ Len(history) = 3
    /\ history[1].op = "create" /\ history[2].op = "update" /\ history[3].op = "delete"

\* C3 as stated: with no request in flight and no storage failure, the number
\* of changelog entries equals the number of todos created by successful
\* POSTs plus the successful PATCHes plus the successful DELETEs.
C3_EntriesEqualSuccesses ==
    (AllIdle /\ failures = 0) => Len(changelog) = Len(history)

\* C3 amended: with no request in flight and no storage failure, the number of
\* changelog entries equals the number of todos stored by POSTs (whether or
\* not the POST as a whole succeeded) plus the successful PATCHes plus the
\* successful DELETEs.
C3_EntriesEqualMutations ==
    (AllIdle /\ failures = 0) =>
        Len(changelog) = (nextId - 1) + Count("update") + Count("delete")

C3_Witness ==
    /\ AllIdle /\ failures = 0
    /\ Len(changelog) = 3
    /\ Len(history) = 2
    /\ Count("update") = 1 /\ Count("delete") = 1

\* C4: a client that polls with its watermark and raises it to the highest
\* version received has received every entry once it polls with no mutation
\* in flight.
C4_ClientHasEverything ==
    client.synced => client.received = {e._id : e \in Entries}

\* C5: a changelist request without a watermark returns every changelog entry.
C5_DefaultReturnsAll ==
    (resp.op = "list" /\ resp.q.kind = "absent") =>
        (resp.status = 200 /\ resp.body = changelog)

\* C6: a changelist request with an integer watermark v returns exactly the
\* stored entries with version > v: none with version <= v, none with
\* version > v left out, and nothing on a fresh store.
C6_ExactlyNewer ==
    (resp.op = "list" /\ resp.q.kind = "int") =>
        /\ resp.status = 200
        /\ {resp.body[j] : j \in 1..Len(resp.body)}
              = {e \in Entries : e.version > resp.q.v}
        /\ Len(resp.body) = Cardinality({e \in Entries : e.version > resp.q.v})

C6_Witness ==
    /\ resp.op = "list" /\ resp.q.kind = "int"
    /\ Len(resp.body) = 1
    /\ Len(changelog) = 3

\* C7: whenever an entry is appended, its version is greater than the version
\* of every entry already stored.
C7_AppendedVersionGreater ==
    [][changelog' # changelog =>
         \A i \in 1..Len(changelog) : changelog[i].version < Last(changelog').version]_vars

\* C8: a PATCH, DELETE or GET for a well-formed identifier that is not in the
\* Todo Store is answered 404, and the step that answers 404 changes neither
\* the Todo Store nor the changelog and leaves no handler behind.
C8_NotFoundNoEffect ==
    [][/\ \A id \in UrlIds :
            (/\ CastOk(id) /\ id \notin DOMAIN todos
             /\ \/ GetById(id)
                \/ DeleteFind(id)
                \/ \E body \in PatchBodies : PatchFind(id, body))
            => resp'.status = 404
       /\ (Quiet /\ resp'.status = 404) =>
            (todos' = todos /\ changelog' = changelog /\ req' = req)]_vars

C8_Witness ==
    /\ resp.op = "delete" /\ resp.status = 404
    /\ Len(changelog) = 2
    /\ DOMAIN todos = {}

\* C9: the entry a create or an update appends has isDeleted = FALSE, the
\* entry a delete appends has isDeleted = TRUE, and in each case resourceId is
\* the identifier of the mutated todo and resourceType is "todo".
C9_EntryShape ==
    [][\A h \in Handlers :
         (Steps(h) /\ changelog' # changelog) =>
             /\ Len(changelog') = Len(changelog) + 1
             /\ Last(changelog').isDeleted = (h.op = "delete")
             /\ Last(changelog').resourceId = CastString(h.id)
             /\ Last(changelog').resourceType = "todo"]_vars

C9_Witness ==
    /\ Len(changelog) = 3
    /\ changelog[1].isDeleted = FALSE /\ changelog[1].resourceId = "1"
    /\ changelog[2].isDeleted = FALSE /\ changelog[2].resourceId = "1"
    /\ changelog[3].isDeleted = TRUE /\ changelog[3].resourceId = "1"
    /\ Count("update") = 1

\* C10: a PATCH answered 200 has appended exactly one changelog entry, however
\* many of title, description and completed the request supplied.
C10_PatchOneEntry ==
    [][\A h \in Handlers :
         (h.op = "patch" /\ Steps(h) /\ resp'.op = "patch" /\ resp'.status = 200) =>
             (h.wrote = 0 /\ Len(changelog') = Len(changelog) + 1)]_vars

C10_Witness ==
    /\ resp.op = "patch" /\ resp.status = 200
    /\ Len(changelog) = 2
    /\ 1 \in DOMAIN todos
    /\ todos[1].title = "b" /\ todos[1].description = "d" /\ todos[1].completed

\* C11: a POST of an array of N valid todos, with no other request in flight,
\* stores N todos and appends N entries with consecutive versions, the i-th
\* entry referencing the i-th todo of the array.
C11_BatchInOrder ==
    [][\A h \in Handlers :
         (h.op = "post" /\ Steps(h) /\ resp'.op = "post" /\ resp'.status = 201) =>
             LET n == Len(h.saved) + Len(h.items)
                 base == Len(changelog') - n
                 entry(i) == changelog'[base + i]
             IN /\ Len(resp'.body) = n
                /\ base >= 0
                /\ Cardinality({resp'.body[i]._id : i \in 1..n}) = n
                /\ \A i \in 1..n :
                      /\ resp'.body[i]._id \in DOMAIN todos'
                      /\ todos'[resp'.body[i]._id] = resp'.body[i]
                      /\ entry(i).resourceId = CastString(resp'.body[i]._id)
                      /\ entry(i).isDeleted = FALSE
                      /\ i > 1 => entry(i).version = entry(i - 1).version + 1]_vars

C11_Witness ==
    /\ resp.op = "post" /\ resp.status = 201
    /\ Len(resp.body) = 2
    /\ Len(changelog) = 3
    /\ changelog[2].resourceId = "2" /\ changelog[3].resourceId = "3"
    /\ changelog[3].version = changelog[2].version + 1

\* C12: when the changelog append fails after the todo mutation is committed,
\* the mutation stays, the request is answered with an error and is not
\* retried, and no entry for that mutation is ever written.
C12_LostAppend ==
    /\ [][\A h \in Handlers :
            (Steps(h) /\ failures' > failures /\ InAddChangelog(h)) =>
                /\ todos' = todos
                /\ changelog' = changelog
                /\ req' = req (-) SetToBag({h})
                /\ resp'.op = h.op
                /\ resp'.status \in {400, 500}]_vars
    /\ [](AllIdle =>
            Len(changelog) = (nextId - 1) - Count("lost post")
                             + Count("update") + Count("delete"))

C12_Witness ==
    /\ resp.op = "patch" /\ resp.status = 400
    /\ AllIdle
    /\ Count("lost patch") = 1
    /\ 1 \in DOMAIN todos /\ todos[1].title = "b"
    /\ Len(changelog) = 1 /\ changelog[1].version = 0

\* C13: when item k of a batch POST fails, the todos and entries of items
\* 1..k-1 are still stored after the error response, and nothing is written
\* for the items after k.
C13_NoBatchRollback ==
    [][\A h \in Handlers :
         (h.op = "post" /\ Steps(h) /\ resp'.op = "post" /\ resp'.status = 400) =>
             LET done == Len(h.saved)
                 base == Len(changelog') - done
             IN /\ todos' = todos /\ changelog' = changelog /\ nextId' = nextId
                /\ req' = EmptyBag
                /\ base >= 0
                /\ \A i \in 1..done :
                      /\ h.saved[i]._id \in DOMAIN todos'
                      /\ todos'[h.saved[i]._id] = h.saved[i]
                      /\ changelog'[base + i].resourceId = CastString(h.saved[i]._id)]_vars

C13_Witness ==
    /\ resp.op = "post" /\ resp.status = 400
    /\ AllIdle /\ failures = 0
    /\ history = <<>>
    /\ DOMAIN todos = {1}
    /\ Len(changelog) = 1 /\ changelog[1].resourceId = "1"

\* C14: a create request rejected because the body is absent or the title is
\* missing has written neither a todo nor a changelog entry, and is answered
\* 400.
C14_RejectedWritesNothing ==
    [][(resp'.op = "post" /\ resp'.status = 400) =>
          /\ todos' = todos /\ changelog' = changelog /\ nextId' = nextId
          /\ \A h \in Handlers : Steps(h) => (h.saved = <<>> /\ h.wrote = 0)]_vars

\* C14 amended: the step that rejects a create request writes nothing, and
\* the request has written exactly the todos and entries of the valid items
\* that precede the first item without a title: nothing when the body is
\* absent or the first item is the one rejected.
C14_RejectedWritesEarlierItemsOnly ==
    [][(resp'.op = "post" /\ resp'.status = 400) =>
          /\ todos' = todos /\ changelog' = changelog /\ nextId' = nextId
          /\ \A h \in Handlers : Steps(h) =>
                /\ h.op = "post"
                /\ ~ValidTodo(NewTodo(Head(h.items), nextId))
                /\ h.wrote = Len(h.saved)
                /\ \A i \in 1..Len(h.saved) : ValidTodo(h.saved[i])]_vars

C14_Witness ==
    /\ resp.op = "post" /\ resp.status = 400
    /\ AllIdle
    /\ todos = <<>> /\ nextId = 1 /\ changelog = <<>>

\* C15: the changelog is append-only: no request modifies or removes an
\* entry once it is written.
C15_AppendOnly ==
    [][/\ Len(changelog') >= Len(changelog)
       /\ SubSeq(changelog', 1, Len(changelog)) = changelog]_vars

C15_Witness ==
    /\ Len(changelog) = 3
    /\ changelog[3].isDeleted
    /\ changelog[1].resourceId = changelog[3].resourceId
    /\ resp.op = "list" /\ resp.status = 200

\* C16: the version computed for a new entry is one greater than the highest
\* version in the Changelog collection at the moment of the read, or 0 when
\* the collection is empty, whatever the collection holds (gaps, duplicates).
C16_NextVersion ==
    [][\A h \in Handlers :
         /\ (Steps(h) /\ h.pc = "findlast") =>
               \E g \in BagToSet(req') :
                  /\ g.pc = "logsave"
                  /\ changelog = <<>> => g.cur + 1 = 0
                  /\ changelog # <<>> =>
                        /\ \E e \in Entries : e.version = g.cur
                        /\ \A e \in Entries : e.version < g.cur + 1
         /\ (Steps(h) /\ h.pc = "logsave") =>
               changelog'[Len(changelog')].version = h.cur + 1]_vars

C16_Witness ==
    /\ Len(changelog) = 3
    /\ changelog[1].version = 2 /\ changelog[2].version = 0
    /\ changelog[3].version = 3 /\ changelog[3].resourceId = "1"

\* C17: of two concurrent PATCH requests for the same stored todo neither is
\* rejected, and a field set by both holds, after the later save, the value
\* of the request that saved later.  Only a PATCH changes a stored field, so
\* this is: the save of a PATCH of a stored todo is not rejected, and each
\* field the request set then holds the request's value, whatever another
\* PATCH has saved since the request read the todo.
C17_LastSaveWins ==
    [][\A h \in Handlers :
         (h.op = "patch" /\ h.pc = "save" /\ Steps(h) /\ h.id \in DOMAIN todos) =>
             /\ resp' = resp
             /\ \A f \in h.set : todos'[h.id][f] = h.doc[f]]_vars

\* C18: GET /todos returns the matching todos newest-created-first: of any
\* two returned todos, the one created later comes earlier in the response.
C18_NewestFirst ==
    (resp.op = "todos" /\ resp.status = 200) =>
        \A i, j \in DOMAIN resp.body :
            i < j => resp.body[i].created_at > resp.body[j].created_at

\* C19: GET /todos with one or more id parameters returns exactly the stored
\* todos whose identifier is among them, each once; with no id parameter (or
\* an empty one) it returns every stored todo.
C19_IdFilter ==
    (resp.op = "todos" /\ resp.status = 200) =>
        LET got == {resp.body[i] : i \in DOMAIN resp.body}
            stored == {todos[i] : i \in DOMAIN todos}
        IN /\ Cardinality(got) = Len(resp.body)
           /\ resp.q.kind = "ids" => got = {t \in stored : t._id \in resp.q.ids}
           /\ resp.q.kind # "ids" => got = stored

C19_Witness ==
    /\ resp.op = "todos" /\ resp.status = 200
    /\ resp.q.kind = "ids" /\ resp.q.ids = {1, 3}
    /\ DOMAIN todos = {1, 2, 3}
    /\ Len(resp.body) = 2

\* C20: a PATCH changes only the targeted todo, and of it only those of
\* title, description and completed that the request supplies; every other
\* field (_id, created_at, due_date, dependencies, image, tags, priority
\* included) and every other todo keep their values.
C20_PatchFrame ==
    [][/\ \A h \in Handlers :
            (h.op = "patch" /\ Steps(h)) =>
                /\ h.set \subseteq Fields
                /\ DOMAIN todos' = DOMAIN todos
                /\ \A id \in DOMAIN todos, f \in TodoPaths :
                      (id # h.id \/ f \notin h.set \/ h.pc # "save")
                      => todos'[id][f] = todos[id][f]
       /\ (\E g \in BagToSet(req') :
              g.op = "patch" /\ g.pc = "save" /\ CopiesIn(g, req') > CopiesIn(g, req))
          => todos' = todos
       /\ (resp'.op = "patch" /\ resp.op = "none") => todos' = todos]_vars

C20_Witness ==
    /\ DOMAIN todos = {1, 2}
    /\ todos[1].description = "d" /\ todos[1].title = "a" /\ ~todos[1].completed
    /\ todos[1].created_at = 1 /\ todos[1].priority = "medium"
    /\ todos[2] = NewTodo(MkBody({"title"}, "a", NoVal, FALSE), 2)
    /\ \E h \in Handlers : h.op = "patch" /\ h.id = 1 /\ h.pc = "findlast"

\* C21: a successful DELETE removes exactly the targeted todo from the Todo
\* collection (the document is gone when 200 is answered) and leaves every
\* other todo present and unchanged.
C21_DeleteFrame ==
    [][\A h \in Handlers :
         (h.op = "delete" /\ Steps(h)) =>
             /\ h.pc = "remove" =>
                   /\ DOMAIN todos' = DOMAIN todos \ {h.id}
                   /\ \A id \in DOMAIN todos' : todos'[id] = todos[id]
             /\ h.pc # "remove" => todos' = todos
             /\ (resp'.op = "delete" /\ resp'.status = 200) =>
                   h.id \notin DOMAIN todos']_vars

C21_Witness ==
    /\ resp.op = "delete" /\ resp.status = 200
    /\ DOMAIN todos = {2}
    /\ todos[2] = NewTodo(MkBody({"title"}, "a", NoVal, FALSE), 2)
    /\ Len(changelog) = 3
    /\ changelog[3].isDeleted /\ changelog[3].resourceId = "1"

\* C22: a PATCH or DELETE whose todo identifier is malformed is answered with
\* an error, 400 for PATCH and 500 for DELETE, and changes neither the Todo
\* collection nor the changelog.
C22_MalformedId ==
    [][(resp'.op \in {"patch", "delete"} /\ resp.op = "none"
          /\ resp'.q.kind = "id" /\ resp'.q.v = BadId) =>
          /\ resp'.status = IF resp'.op = "patch" THEN 400 ELSE 500
          /\ todos' = todos /\ changelog' = changelog /\ nextId' = nextId
          /\ req' = req]_vars

C22_Witness ==
    /\ resp.op = "delete" /\ resp.status = 500
    /\ resp.q = IdQuery(BadId)
    /\ DOMAIN todos = {1}
    /\ Len(changelog) = 1
    /\ AllIdle

\* C23: with no request in flight and no storage failure, a todo identifier
\* that has changelog entries is absent from the Todo collection if and only
\* if its entries with the highest version have isDeleted = true.
EntriesOf(id) == {e \in Entries : e.resourceId = CastString(id)}

TopEntriesOf(id) ==
    {e \in EntriesOf(id) : \A d \in EntriesOf(id) : d.version <= e.version}

C23_TombstoneIffAbsent ==
    (AllIdle /\ failures = 0) =>
        \A id \in 1..(nextId - 1) :
            EntriesOf(id) # {} =>
                (id \notin DOMAIN todos <=> \A e \in TopEntriesOf(id) : e.isDeleted)

\* C24: for every todo identifier the changelog holds at most one entry with
\* isDeleted = true, whatever the interleaving of the requests.
C24_OneTombstone ==
    \A id \in 1..(nextId - 1) :
        Cardinality({e \in EntriesOf(id) : e.isDeleted}) <= 1

\* The entries the per-item variant appends for a batch that runs alone:
\* addChangelog(savedTodo) once per item.
RECURSIVE PerItem(_, _)
PerItem(log, docs) ==
    IF docs = <<>> THEN log
    ELSE PerItem(Insert(log, NewChangelog(Head(docs), FALSE, CurVersion(log), Len(log) + 1)),
                 Tail(docs))

\* C25: when no other request interleaves, the batch create with the counter
\* fetched once per batch gives the items of a batch the versions that the
\* per-item variant gives them, for every initial changelog, the empty one
\* included.
C25_PrefetchEquivalent ==
    [][\A h \in Handlers :
         (h.op \in {"post", "post.prefetch"} /\ Steps(h) /\ resp'.status = 201) =>
             LET docs == resp'.body
                 base == SubSeq(changelog', 1, Len(changelog') - Len(docs))
                 perItem == PerItem(base, docs)
             IN \A i \in 1..Len(docs) :
                   changelog'[Len(base) + i].version = perItem[Len(base) + i].version]_vars

====
